---- MODULE Spec2Model ----
(***************************************************************************)
(* Model of the reference-counted SharedPtr of src/shared.h: the control   *)
(* blocks (ControlBlockBase, ControlBlockPtr, ControlBlockMakeShared), the *)
(* SharedPtr handle and MakeShared.                                        *)
(*                                                                         *)
(* Handles are variables of the client program (slots 1..NH), each with a  *)
(* static element type: slot 1 is a SharedPtr<D>, the others SharedPtr<B>, *)
(* where D derives from B.  The static type matters because the copy       *)
(* constructor and copy assignment written in the class are member         *)
(* TEMPLATES (lines 114-119, 149-159).  A template is never a copy         *)
(* constructor or a copy assignment operator, and the class declares no    *)
(* non-template one, so the compiler declares the memberwise ones and      *)
(* overload resolution prefers them whenever source and target have the    *)
(* same type.  The templates run only for a converting copy                *)
(* (SharedPtr<B> from SharedPtr<D>).  For rvalues the template move        *)
(* operations (lines 121-127, 160-172) are the better match for every      *)
(* type.  (g++ -std=c++17 confirms: after SharedPtr<B> b(a) on an owning   *)
(* SharedPtr<B> a, a.UseCount() is 1.)                                     *)
(*                                                                         *)
(* Undefined behaviour (null control block dereference, delete of an       *)
(* already deleted object, delete of the storage embedded in a control     *)
(* block, access to a freed control block) is a choice between aborting    *)
(* (crashed) and carrying on with the effect the statement has on the      *)
(* stale memory; ub remembers the kind that happened.  Nothing is defined  *)
(* about a run after its first undefined statement, so the run ends there. *)
(*                                                                         *)
(* The exclusive-ownership UniquePtr of src/src/unique.h shares no state   *)
(* with SharedPtr; it has its own variables (up, uobj, uub, uop) and its   *)
(* own specification SpecU.  Its converting move constructor (lines 20-28) *)
(* has no member initialisers and compares u_ptr.ptr_ with its own ptr_    *)
(* before assigning it: the read of the uninitialised member is a choice   *)
(* over every value the member can hold.                                   *)
(***************************************************************************)
EXTENDS Integers, FiniteSets, Sequences, TLC

NH == 3          \* handle variables of the client
MaxCB == 2       \* control blocks ever allocated
MaxObj == 2      \* payload objects ever allocated with new
MaxStrong == 3   \* cap on a strong counter
NU == 2          \* UniquePtr variables of the client
MaxUObj == 2     \* objects ever handed to a UniquePtr

NULL == 0

H == 1..NH
U == 1..NU
UObj == 1..MaxUObj
\* Deleter values: Deleter() and a deleter the caller passed in
Deleters == {"default", "given"}
CB == 1..MaxCB
Obj == 1..MaxObj
\* address of the storage embedded in control block c (holder)
Holder(c) == MaxObj + c
Addr == 1..(MaxObj + MaxCB)

\* static element type of a handle variable
HType(h) == IF h = 1 THEN "D" ELSE "B"
\* X* converts implicitly to T* (same type or derived to base)
Convertible(x, t) == x = t \/ (x = "D" /\ t = "B")

VARIABLES hs, cbs, mem, crashed, ub, op
VARIABLES up, uobj, uub, uop

vars == <<hs, cbs, mem, crashed, ub, op, up, uobj, uub, uop>>
uvars == <<up, uobj, uub, uop>>
svars == <<hs, cbs, mem, crashed, ub, op>>

NoHandle == [live |-> FALSE, cb |-> NULL, ptr |-> NULL]
NoCB == [st |-> "none", kind |-> "ptr", strong |-> 0, weak |-> 0, ptr |-> NULL,
         zs |-> 0, zw |-> 0, pure |-> FALSE]
NoMem == [alloc |-> FALSE, dtor |-> 0, del |-> 0]
NoUnique == [live |-> FALSE, ptr |-> NULL, del |-> "default"]
NoUObj == [st |-> "none", del |-> 0, from |-> NULL]

TypeOK ==
    /\ hs \in [H -> [live : BOOLEAN, cb : {NULL} \cup CB, ptr : {NULL} \cup Addr]]
    /\ cbs \in [CB -> [st : {"none", "live", "freed"}, kind : {"ptr", "make"},
                       strong : -1..MaxStrong, weak : 0..1,
                       ptr : {NULL} \cup Addr, zs : 0..2, zw : 0..2,
                       pure : BOOLEAN]]
    /\ mem \in [Addr -> [alloc : BOOLEAN, dtor : 0..3, del : 0..3]]
    /\ crashed \in BOOLEAN
    /\ ub \in {"none", "nullDeref", "doubleDelete", "badDelete", "doubleDestroy", "useAfterFree"}

\* the program state as one record, threaded through the steps of a handler
Cur == [hs |-> hs, cbs |-> cbs, mem |-> mem, crashed |-> crashed, ub |-> ub]

----------------------------------------------------------------------------
(* Undefined behaviour and sequencing *)

Fault(s, k) == [s EXCEPT !.ub = IF @ = "none" THEN k ELSE @]
Crash(s, k) == [Fault(s, k) EXCEPT !.crashed = TRUE]
\* the outcomes of a statement with undefined behaviour: abort, or carry on as cont
UB(s, k, cont) == {Crash(s, k)} \cup {Fault(x, k) : x \in cont}
\* statement sequencing: F runs on every outcome that did not abort
Then(S, F(_)) == UNION {IF s.crashed THEN {s} ELSE F(s) : s \in S}

----------------------------------------------------------------------------
(* Heap *)

HasFreshObj(s) == \E a \in Obj : ~s.mem[a].alloc
FreshObj(s) == CHOOSE a \in Obj : ~s.mem[a].alloc /\ \A b \in Obj : b < a => s.mem[b].alloc
HasFreshCB(s) == \E c \in CB : s.cbs[c].st = "none"
FreshCB(s) == CHOOSE c \in CB : s.cbs[c].st = "none" /\ \A d \in CB : d < c => s.cbs[d].st # "none"

\* new X: the caller's allocation of a payload object
NewObj(s, a) == [s EXCEPT !.mem[a] = [alloc |-> TRUE, dtor |-> 0, del |-> 0]]

RunDelete(s, a) == [s EXCEPT !.mem[a].dtor = @ + 1, !.mem[a].del = @ + 1]
\* the expression `delete p`
Delete(s, a) ==
    IF a = NULL THEN {s}
    ELSE IF a \in Obj /\ s.mem[a].dtor = 0 /\ s.mem[a].del = 0 THEN {RunDelete(s, a)}
    ELSE IF a \in Obj THEN UB(s, "doubleDelete", {RunDelete(s, a)})
    ELSE UB(s, "badDelete", {RunDelete(s, a)})

\* std::destroy_at(p): runs the destructor, frees nothing
DestroyAt(s, a) ==
    IF s.mem[a].dtor = 0 THEN {[s EXCEPT !.mem[a].dtor = @ + 1]}
    ELSE UB(s, "doubleDestroy", {[s EXCEPT !.mem[a].dtor = @ + 1]})

----------------------------------------------------------------------------
(* Control blocks *)

\* ControlBlockPtr(T* p) : ControlBlockBase(1, 1)
ControlBlockPtr(s, c, p) ==
    [s EXCEPT !.cbs[c] = [st |-> "live", kind |-> "ptr", strong |-> 1, weak |-> 1,
                          ptr |-> p, zs |-> 0, zw |-> 0, pure |-> TRUE]]

\* ControlBlockMakeShared(args...) : ControlBlockBase(1, 1), T constructed in holder
ControlBlockMakeShared(s, c) ==
    [s EXCEPT !.cbs[c] = [st |-> "live", kind |-> "make", strong |-> 1, weak |-> 1,
                          ptr |-> NULL, zs |-> 0, zw |-> 0, pure |-> TRUE],
              !.mem[Holder(c)] = [alloc |-> TRUE, dtor |-> 0, del |-> 0]]

OnZeroStrong(s, c) ==
    LET s1 == [s EXCEPT !.cbs[c].zs = @ + 1]
    IN  IF s.cbs[c].kind = "ptr" THEN Delete(s1, s.cbs[c].ptr)
        ELSE DestroyAt(s1, Holder(c))

\* delete this
OnZeroWeak(s, c) ==
    LET s1 == [s EXCEPT !.cbs[c].zw = @ + 1, !.cbs[c].st = "freed"]
    IN  IF s.cbs[c].st = "live" THEN {s1} ELSE UB(s, "useAfterFree", {s1})

IncBody(s, c) == {[s EXCEPT !.cbs[c].strong = @ + 1]}
IncreaseStrong(s, c) ==
    IF c = NULL THEN UB(s, "nullDeref", {s})
    ELSE IF s.cbs[c].st # "live" THEN UB(s, "useAfterFree", IncBody(s, c))
    ELSE IncBody(s, c)

DecBodyKeepsBlock(s, c) ==
    LET s1 == [s EXCEPT !.cbs[c].strong = @ - 1]
    IN  IF s1.cbs[c].strong = 0 THEN OnZeroStrong(s1, c) ELSE {s1}

DecBody(s, c) ==
    LET s1 == [s EXCEPT !.cbs[c].strong = @ - 1]
    IN  IF s1.cbs[c].strong = 0
        THEN Then(OnZeroStrong(s1, c), LAMBDA x : OnZeroWeak(x, c))
        ELSE {s1}
DecreaseStrong(s, c) ==
    IF c = NULL THEN UB(s, "nullDeref", {s})
    ELSE IF s.cbs[c].st # "live" THEN UB(s, "useAfterFree", DecBody(s, c))
    ELSE DecBody(s, c)

----------------------------------------------------------------------------
(* SharedPtr: observers *)

Get(s, h) == s.hs[h].ptr
EqualSameGroup(s, l, r) == s.hs[l].ptr = s.hs[r].ptr /\ s.hs[l].cb = s.hs[r].cb

\* operator==(left, right): payload addresses only
Equal(s, l, r) == s.hs[l].ptr = s.hs[r].ptr
\* UseCount() of a handle whose control block is allocated and not freed
UseCount(s, h) == s.cbs[s.hs[h].cb].strong

\* ghost bookkeeping: the group c was not made by the raw-pointer constructor
\* or MakeShared, or has seen something other than copy constructions, move
\* constructions and swaps since
Touch(s, c) == IF c = NULL THEN s ELSE [s EXCEPT !.cbs[c].pure = FALSE]

----------------------------------------------------------------------------
(* SharedPtr: constructors *)

\* SharedPtr()
DefaultCtorOp(s, h) ==
    LET c == FreshCB(s)
    IN  {[ControlBlockPtr(s, c, NULL) EXCEPT !.hs[h] = [live |-> TRUE, cb |-> c, ptr |-> NULL]]}

\* SharedPtr(std::nullptr_t)
NullCtorOp(s, h) == {[s EXCEPT !.hs[h] = [live |-> TRUE, cb |-> NULL, ptr |-> NULL]]}

\* explicit SharedPtr(X* ptr)
RawCtorOp(s, h, p) ==
    LET c == FreshCB(s)
    IN  {[ControlBlockPtr(s, c, p) EXCEPT !.hs[h] = [live |-> TRUE, cb |-> c, ptr |-> p]]}

\* MakeShared<V>(args...) returning SharedPtr<V>(cb, &holder)
MakeSharedOp(s, h) ==
    LET c == FreshCB(s)
    IN  {[ControlBlockMakeShared(s, c) EXCEPT
            !.hs[h] = [live |-> TRUE, cb |-> c, ptr |-> Holder(c)]]}

\* template <class X> SharedPtr(const SharedPtr<X>& other)
TemplateCopyCtor(s, d, o) ==
    LET s1 == [s EXCEPT !.hs[d] = [live |-> TRUE, cb |-> s.hs[o].cb, ptr |-> NULL]]
    IN  Then(IncreaseStrong(s1, s1.hs[d].cb),
             LAMBDA x : {[x EXCEPT !.hs[d].ptr = x.hs[o].ptr]})

\* the implicitly declared SharedPtr(const SharedPtr&): memberwise copy
ImplicitCopyCtor(s, d, o) ==
    {[s EXCEPT !.hs[d] = [live |-> TRUE, cb |-> s.hs[o].cb, ptr |-> s.hs[o].ptr]]}

\* overload resolution of SharedPtr<T> d(o) for an lvalue o
CopyCtorOp(s, d, o) ==
    IF HType(d) = HType(o) THEN ImplicitCopyCtor(s, d, o) ELSE TemplateCopyCtor(s, d, o)

MoveCtorKeepsSource(s, d, o) ==
    {[s EXCEPT !.hs[d] = [live |-> TRUE, cb |-> s.hs[o].cb, ptr |-> s.hs[o].ptr]]}

\* template <class X> SharedPtr(SharedPtr<X>&& other)
MoveCtorOp(s, d, o) ==
    {[s EXCEPT !.hs[d] = [live |-> TRUE, cb |-> s.hs[o].cb, ptr |-> s.hs[o].ptr],
               !.hs[o].cb = NULL, !.hs[o].ptr = NULL]}

\* template <typename Y> SharedPtr(const SharedPtr<Y>& other, T* ptr)
AliasCtorOp(s, d, o, p) ==
    LET s1 == [s EXCEPT !.hs[d] = [live |-> TRUE, cb |-> s.hs[o].cb, ptr |-> NULL]]
    IN  Then(IncreaseStrong(s1, s1.hs[d].cb),
             LAMBDA x : {[x EXCEPT !.hs[d].ptr = p]})

----------------------------------------------------------------------------
(* SharedPtr: assignment, destructor, modifiers *)

\* template <class X> SharedPtr& operator=(const SharedPtr<X>& other)
TemplateCopyAssign(s, d, o) ==
    IF Equal(s, o, d) THEN {s}
    ELSE Then(Then(DecreaseStrong(s, s.hs[d].cb),
                   LAMBDA x : IncreaseStrong([x EXCEPT !.hs[d].cb = x.hs[o].cb], x.hs[o].cb)),
              LAMBDA y : {[y EXCEPT !.hs[d].ptr = y.hs[o].ptr]})

\* the implicitly declared operator=(const SharedPtr&): memberwise copy
ImplicitCopyAssign(s, d, o) ==
    {[s EXCEPT !.hs[d].cb = s.hs[o].cb, !.hs[d].ptr = s.hs[o].ptr]}

CopyAssignNoSelfCheck(s, d, o) ==
    Then(Then(DecreaseStrong(s, s.hs[d].cb),
              LAMBDA x : IncreaseStrong([x EXCEPT !.hs[d].cb = x.hs[o].cb], x.hs[o].cb)),
         LAMBDA y : {[y EXCEPT !.hs[d].ptr = y.hs[o].ptr]})

\* overload resolution of d = o for an lvalue o
CopyAssignOp(s, d, o) ==
    IF HType(d) = HType(o) THEN ImplicitCopyAssign(s, d, o) ELSE TemplateCopyAssign(s, d, o)

\* template <class X> SharedPtr& operator=(SharedPtr<X>&& other)
MoveAssignOp(s, d, o) ==
    IF Equal(s, o, d) THEN {s}
    ELSE Then(Then(DecreaseStrong(s, s.hs[d].cb),
                   LAMBDA x : IncreaseStrong([x EXCEPT !.hs[d].cb = x.hs[o].cb], x.hs[o].cb)),
              LAMBDA y : {[y EXCEPT !.hs[d].ptr = y.hs[o].ptr,
                                    !.hs[o].ptr = NULL, !.hs[o].cb = NULL]})

\* ~SharedPtr()
DestroyOp(s, h) ==
    Then(Then(DecreaseStrong(s, s.hs[h].cb),
              LAMBDA x : IF x.hs[h].ptr # NULL THEN Delete(x, x.hs[h].ptr) ELSE {x}),
         LAMBDA y : {[y EXCEPT !.hs[h] = NoHandle]})

\* void Reset()
ResetOp(s, h) ==
    Then(Then(IF s.hs[h].cb # NULL THEN DecreaseStrong(s, s.hs[h].cb) ELSE {s},
              LAMBDA x : LET x1 == [x EXCEPT !.hs[h].cb = NULL]
                         IN  IF x1.hs[h].ptr # NULL THEN Delete(x1, x1.hs[h].ptr) ELSE {x1}),
         LAMBDA y : {[y EXCEPT !.hs[h].ptr = NULL]})

\* void Reset(T* ptr)
ResetPtrOp(s, h, p) ==
    Then(Then(IF s.hs[h].cb # NULL THEN DecreaseStrong(s, s.hs[h].cb) ELSE {s},
              LAMBDA x : LET c == FreshCB(x)
                             x1 == [ControlBlockPtr(x, c, p) EXCEPT !.hs[h].cb = c]
                         IN  IF x1.hs[h].ptr # NULL THEN Delete(x1, x1.hs[h].ptr) ELSE {x1}),
         LAMBDA y : {[y EXCEPT !.hs[h].ptr = p]})

SwapOnlyBlocks(s, a, b) ==
    {[s EXCEPT !.hs[a].cb = s.hs[b].cb, !.hs[b].cb = s.hs[a].cb]}

\* template <class X> void Swap(SharedPtr<X>& other)
SwapOp(s, a, b) ==
    {[s EXCEPT !.hs[a].cb = s.hs[b].cb, !.hs[b].cb = s.hs[a].cb,
               !.hs[a].ptr = s.hs[b].ptr, !.hs[b].ptr = s.hs[a].ptr]}

----------------------------------------------------------------------------------------------------------------------------------------
(* The client program: one action per operation on the handle variables *)

InBounds(s) == \A c \in CB : s.cbs[c].strong <= MaxStrong

\* the program takes one of the outcomes S of the operation name; op remembers
\* the operation and whether it was applied to a handle and itself
Do(name, self, S) ==
    \E s2 \in S :
        /\ InBounds(s2)
        /\ hs' = s2.hs /\ cbs' = s2.cbs /\ mem' = s2.mem
        /\ crashed' = s2.crashed /\ ub' = s2.ub
        /\ op' = [name |-> name, self |-> self]
        /\ UNCHANGED uvars

\* no statement with undefined behaviour has been executed so far
Defined == ub = "none" /\ ~crashed

\* the addresses a caller can pass as an aliasing pointer
Known(s) == {NULL} \cup {a \in Addr : s.mem[a].alloc}

Init ==
    /\ hs = [h \in H |-> NoHandle]
    /\ cbs = [c \in CB |-> NoCB]
    /\ mem = [a \in Addr |-> NoMem]
    /\ crashed = FALSE
    /\ ub = "none"
    /\ op = [name |-> "init", self |-> FALSE]
    /\ up = [u \in U |-> NoUnique]
    /\ uobj = [a \in UObj |-> NoUObj]
    /\ uub = "none"
    /\ uop = [name |-> "init", ret |-> NULL]

DefaultCtorStep(h) ==
    /\ Defined /\ ~hs[h].live /\ HasFreshCB(Cur)
    /\ Do("DefaultCtor", FALSE, {Touch(x, FreshCB(Cur)) : x \in DefaultCtorOp(Cur, h)})

NullCtorStep(h) ==
    /\ Defined /\ ~hs[h].live
    /\ Do("NullCtor", FALSE, NullCtorOp(Cur, h))

\* p is null or the object the caller has just allocated with new
RawCtorStep(h, fresh) ==
    /\ Defined /\ ~hs[h].live /\ HasFreshCB(Cur)
    /\ IF fresh
       THEN /\ HasFreshObj(Cur)
            /\ Do("RawCtor", FALSE, RawCtorOp(NewObj(Cur, FreshObj(Cur)), h, FreshObj(Cur)))
       ELSE Do("RawCtor", FALSE, RawCtorOp(Cur, h, NULL))

MakeSharedStep(h) ==
    /\ Defined /\ ~hs[h].live /\ HasFreshCB(Cur)
    /\ Do("MakeShared", FALSE, MakeSharedOp(Cur, h))

CopyCtorStep(d, o) ==
    /\ Defined /\ ~hs[d].live /\ hs[o].live /\ Convertible(HType(o), HType(d))
    /\ Do("CopyCtor", FALSE, CopyCtorOp(Cur, d, o))

MoveCtorStep(d, o) ==
    /\ Defined /\ ~hs[d].live /\ hs[o].live /\ Convertible(HType(o), HType(d))
    /\ Do("MoveCtor", FALSE, MoveCtorOp(Cur, d, o))

AliasCtorStep(d, o, p) ==
    /\ Defined /\ ~hs[d].live /\ hs[o].live /\ p \in Known(Cur)
    /\ Do("AliasCtor", FALSE, AliasCtorOp(Touch(Cur, hs[o].cb), d, o, p))

CopyAssignStep(d, o) ==
    /\ Defined /\ hs[d].live /\ hs[o].live /\ Convertible(HType(o), HType(d))
    /\ Do("CopyAssign", d = o, CopyAssignOp(Touch(Touch(Cur, hs[d].cb), hs[o].cb), d, o))

MoveAssignStep(d, o) ==
    /\ Defined /\ hs[d].live /\ hs[o].live /\ Convertible(HType(o), HType(d))
    /\ Do("MoveAssign", d = o, MoveAssignOp(Touch(Touch(Cur, hs[d].cb), hs[o].cb), d, o))

DestroyStep(h) ==
    /\ Defined /\ hs[h].live
    /\ Do("Destroy", FALSE, DestroyOp(Touch(Cur, hs[h].cb), h))

ResetStep(h) ==
    /\ Defined /\ hs[h].live
    /\ Do("Reset", FALSE, ResetOp(Touch(Cur, hs[h].cb), h))

ResetPtrStep(h, fresh) ==
    /\ Defined /\ hs[h].live /\ HasFreshCB(Cur)
    /\ IF fresh
       THEN /\ HasFreshObj(Cur)
            /\ Do("ResetPtr", FALSE,
                  {Touch(x, FreshCB(Cur)) :
                      x \in ResetPtrOp(NewObj(Touch(Cur, hs[h].cb), FreshObj(Cur)), h, FreshObj(Cur))})
       ELSE Do("ResetPtr", FALSE,
               {Touch(x, FreshCB(Cur)) : x \in ResetPtrOp(Touch(Cur, hs[h].cb), h, NULL)})

SwapStep(a, b) ==
    /\ Defined /\ hs[a].live /\ hs[b].live /\ HType(a) = HType(b)
    /\ Do("Swap", a = b, SwapOp(Cur, a, b))

DefaultCtor == \E h \in H : DefaultCtorStep(h)
NullCtor == \E h \in H : NullCtorStep(h)
RawCtor == \E h \in H, fresh \in BOOLEAN : RawCtorStep(h, fresh)
MakeShared == \E h \in H : MakeSharedStep(h)
CopyCtor == \E d \in H, o \in H : CopyCtorStep(d, o)
MoveCtor == \E d \in H, o \in H : MoveCtorStep(d, o)
AliasCtor == \E d \in H, o \in H, p \in {NULL} \cup Addr : AliasCtorStep(d, o, p)
CopyAssign == \E d \in H, o \in H : CopyAssignStep(d, o)
MoveAssign == \E d \in H, o \in H : MoveAssignStep(d, o)
Destroy == \E h \in H : DestroyStep(h)
Reset == \E h \in H : ResetStep(h)
ResetPtr == \E h \in H, fresh \in BOOLEAN : ResetPtrStep(h, fresh)
Swap == \E a \in H, b \in H : SwapStep(a, b)

Next ==
    \/ DefaultCtor
    \/ NullCtor
    \/ RawCtor
    \/ MakeShared
    \/ CopyCtor
    \/ MoveCtor
    \/ AliasCtor
    \/ CopyAssign
    \/ MoveAssign
    \/ Destroy
    \/ Reset
    \/ ResetPtr
    \/ Swap

Spec == Init /\ [][Next]_vars

-----------------------------------------------------------------------------
(* UniquePtr<T, Deleter> (src/src/unique.h) *)

UTypeOK ==
    /\ up \in [U -> [live : BOOLEAN, ptr : {NULL} \cup UObj, del : Deleters]]
    /\ uobj \in [UObj -> [st : {"none", "owned", "released"}, del : 0..2,
                          from : {NULL} \cup U]]
    /\ uub \in {"none", "uninitRead", "doubleDelete"}

\* the UniquePtr state as one record, threaded through the steps of a handler
UCur == [up |-> up, uobj |-> uobj, uub |-> uub]

HasFreshUObj(s) == \E a \in UObj : s.uobj[a].st = "none"
\* the next object the caller allocates
FreshUObj(s) == CHOOSE a \in UObj :
                    s.uobj[a].st = "none" /\ \A b \in UObj : s.uobj[b].st = "none" => a <= b

\* del_(p): the deleter applied to p; deleting null does nothing, deleting a
\* deleted object is undefined
InvokeDeleter(s, p) ==
    IF p = NULL THEN s
    ELSE [s EXCEPT !.uobj[p].del = @ + 1,
                   !.uub = IF s.uobj[p].del > 0 THEN "doubleDelete" ELSE @]

\* T* Get() const
UniquePtrGet(s, u) == s.up[u].ptr

\* UniquePtr(), UniquePtr(Y* elem), UniquePtr(Y* elem, Deleter d)
UniquePtrCtor(s, u, p, d) ==
    {[s EXCEPT !.up[u] = [live |-> TRUE, ptr |-> p, del |-> d],
               !.uobj = IF p = NULL THEN @ ELSE [@ EXCEPT ![p].st = "owned"]]}

\* template <class Y> UniquePtr(UniquePtr<Y>&& u_ptr): ptr_ and del_ have no
\* initialiser; garbage is the value read from the uninitialised ptr_
UniquePtrMoveCtor(s, u, o) ==
    { IF s.up[o].ptr = garbage
      THEN [s EXCEPT !.up[u] = [live |-> TRUE, ptr |-> garbage, del |-> "default"],
                     !.uub = "uninitRead"]
      ELSE [s EXCEPT !.up[u] = [live |-> TRUE, ptr |-> s.up[o].ptr, del |-> s.up[o].del],
                     !.up[o].ptr = NULL,
                     !.uub = "uninitRead"]
      : garbage \in {NULL} \cup UObj }

\* UniquePtr& operator=(std::nullptr_t)
UniquePtrAssignNull(s, u) ==
    {[InvokeDeleter(s, s.up[u].ptr) EXCEPT !.up[u].ptr = NULL]}

\* template <class Y> UniquePtr& operator=(UniquePtr<Y>&& u_ptr)
UniquePtrMoveAssign(s, u, o) ==
    IF s.up[o].ptr = s.up[u].ptr THEN {s}
    ELSE {[InvokeDeleter(s, s.up[u].ptr) EXCEPT
              !.up[u].ptr = s.up[o].ptr, !.up[u].del = s.up[o].del,
              !.up[o].ptr = NULL]}

\* ~UniquePtr()
UniquePtrDtor(s, u) ==
    {[InvokeDeleter(s, s.up[u].ptr) EXCEPT !.up[u] = NoUnique]}

UniquePtrReleaseKeeps(s, u) ==
    {[s EXCEPT !.uobj = IF s.up[u].ptr = NULL THEN @
                        ELSE [@ EXCEPT ![s.up[u].ptr].st = "released",
                                       ![s.up[u].ptr].from = u]]}

\* T* Release(): the returned pointer is the caller's from now on
UniquePtrRelease(s, u) ==
    {[s EXCEPT !.up[u].ptr = NULL,
               !.uobj = IF s.up[u].ptr = NULL THEN @
                        ELSE [@ EXCEPT ![s.up[u].ptr].st = "released",
                                       ![s.up[u].ptr].from = u]]}

\* void Reset(T* p = nullptr)
UniquePtrReset(s, u, p) ==
    LET old == s.up[u].ptr
        s1 == [s EXCEPT !.up[u].ptr = p,
                        !.uobj = IF p = NULL THEN @ ELSE [@ EXCEPT ![p].st = "owned"]]
    IN  {IF old # NULL THEN InvokeDeleter(s1, old) ELSE s1}

\* void Swap(UniquePtr& other)
UniquePtrSwap(s, u, o) ==
    {[s EXCEPT !.up[u].ptr = s.up[o].ptr, !.up[o].ptr = s.up[u].ptr,
               !.up[u].del = s.up[o].del, !.up[o].del = s.up[u].del]}

UDo(name, ret, S) ==
    \E s2 \in S :
        /\ up' = s2.up /\ uobj' = s2.uobj /\ uub' = s2.uub
        /\ uop' = [name |-> name, ret |-> ret]
        /\ UNCHANGED svars

\* no statement with undefined behaviour has been executed so far
UDefined == uub = "none"

\* the pointer a caller passes to a constructor or to Reset: a new object or
\* null
Arg(s, fresh) == IF fresh THEN FreshUObj(s) ELSE NULL

UCtorStep(u, fresh, d) ==
    /\ UDefined /\ ~up[u].live /\ (fresh => HasFreshUObj(UCur))
    /\ UDo("Ctor", NULL, UniquePtrCtor(UCur, u, Arg(UCur, fresh), d))

UMoveCtorStep(u, o) ==
    /\ UDefined /\ ~up[u].live /\ up[o].live
    /\ UDo("MoveCtor", NULL, UniquePtrMoveCtor(UCur, u, o))

UAssignNullStep(u) ==
    /\ UDefined /\ up[u].live
    /\ UDo("AssignNull", NULL, UniquePtrAssignNull(UCur, u))

UMoveAssignStep(u, o) ==
    /\ UDefined /\ up[u].live /\ up[o].live
    /\ UDo("MoveAssign", NULL, UniquePtrMoveAssign(UCur, u, o))

UDtorStep(u) ==
    /\ UDefined /\ up[u].live
    /\ UDo("Dtor", NULL, UniquePtrDtor(UCur, u))

UReleaseStep(u) ==
    /\ UDefined /\ up[u].live
    /\ UDo("Release", UniquePtrGet(UCur, u), UniquePtrRelease(UCur, u))

UResetStep(u, fresh) ==
    /\ UDefined /\ up[u].live /\ (fresh => HasFreshUObj(UCur))
    /\ UDo("Reset", NULL, UniquePtrReset(UCur, u, Arg(UCur, fresh)))

USwapStep(u, o) ==
    /\ UDefined /\ up[u].live /\ up[o].live
    /\ UDo("Swap", NULL, UniquePtrSwap(UCur, u, o))

UCtor == \E u \in U, fresh \in BOOLEAN, d \in Deleters : UCtorStep(u, fresh, d)
UMoveCtor == \E u \in U, o \in U : UMoveCtorStep(u, o)
UAssignNull == \E u \in U : UAssignNullStep(u)
UMoveAssign == \E u \in U, o \in U : UMoveAssignStep(u, o)
UDtor == \E u \in U : UDtorStep(u)
URelease == \E u \in U : UReleaseStep(u)
UReset == \E u \in U, fresh \in BOOLEAN : UResetStep(u, fresh)
USwap == \E u \in U, o \in U : USwapStep(u, o)

NextU ==
    \/ UCtor
    \/ UMoveCtor
    \/ UAssignNull
    \/ UMoveAssign
    \/ UDtor
    \/ URelease
    \/ UReset
    \/ USwap

SpecU == Init /\ [][NextU]_vars

----------------------------------------------------------------------------
(* Vocabulary of the properties *)

\* the live handles whose cb_ is c
Group(s, c) == {h \in H : s.hs[h].live /\ s.hs[h].cb = c}
\* the address of the payload that control block c manages
Payload(s, c) == IF s.cbs[c].kind = "ptr" THEN s.cbs[c].ptr ELSE Holder(c)
\* the number of times the destructor of c's payload has run
Destroyed(s, c) == IF Payload(s, c) = NULL THEN 0 ELSE s.mem[Payload(s, c)].dtor
\* Empty state of a live handle
IsEmpty(s, h) == s.hs[h].live /\ s.hs[h].cb = NULL /\ s.hs[h].ptr = NULL
\* Owning state: the handle references a control block that has not been freed
Owning(s, h) == s.hs[h].live /\ s.hs[h].cb # NULL /\ s.cbs[s.hs[h].cb].st = "live"
\* the program-visible part of a control block (without the ghost field)
Block(s, c) == [st |-> s.cbs[c].st, strong |-> s.cbs[c].strong, weak |-> s.cbs[c].weak,
                ptr |-> s.cbs[c].ptr, zs |-> s.cbs[c].zs, zw |-> s.cbs[c].zw]

----------------------------------------------------------------------------
(* Claims *)

\* C1: the payload of every allocation adopted from a raw pointer is
\* destroyed exactly once: never twice, not while a handle of its group is
\* still live, and it has been destroyed once no handle of the group is left.
C1_DestroyedExactlyOnce ==
    \A c \in CB :
        (cbs[c].st # "none" /\ cbs[c].kind = "ptr" /\ cbs[c].ptr # NULL) =>
            /\ Destroyed(Cur, c) <= 1
            /\ Group(Cur, c) # {} => Destroyed(Cur, c) = 0
            /\ Group(Cur, c) = {} => Destroyed(Cur, c) = 1

\* C2: the strong counter of every live control block equals the number of
\* live handles whose cb_ points to it.
C2_StrongCountsHandles ==
    \A c \in CB : cbs[c].st = "live" => cbs[c].strong = Cardinality(Group(Cur, c))

\* C3: OnZeroStrong and OnZeroWeak fire at most once per control block, both
\* have fired exactly once when no handle references the block any more, and
\* no operation touches a control block that OnZeroWeak has freed.
C3_CallbacksExactlyOnce ==
    /\ ub # "useAfterFree"
    /\ \A c \in CB :
        cbs[c].st # "none" =>
            /\ cbs[c].zs <= 1 /\ cbs[c].zw <= 1
            /\ Group(Cur, c) = {} => (cbs[c].zs = 1 /\ cbs[c].zw = 1)

\* C4: an aliasing construction B(A, p) with p # A.Get() gives B a different
\* address in A's group, and destroying or resetting a handle A while a handle
\* B of the same group with a different address exists leaves the payload of
\* the group alive.
C4_AliasKeepsPayloadAlive ==
    [][\A a \in H, b \in H :
        /\ \A p \in {NULL} \cup Addr :
              (op'.name = "AliasCtor" /\ AliasCtorStep(b, a, p) /\ Owning(Cur, a) /\ p # hs[a].ptr) =>
                  (hs'[b].ptr # hs'[a].ptr /\ hs'[b].cb = hs'[a].cb)
        /\ ( /\ op'.name \in {"Destroy", "Reset"}
              /\ (DestroyStep(a) \/ ResetStep(a))
              /\ a # b /\ Owning(Cur, a) /\ hs[b].live /\ hs[b].cb = hs[a].cb
              /\ hs[a].ptr # hs[b].ptr /\ Destroyed(Cur, hs[a].cb) = 0 )
            => Destroyed(Cur', hs[a].cb) = 0]_vars

\* C5: Reset() on one of N >= 2 live handles of a group leaves that handle
\* Empty, every remaining handle of the group with UseCount() = N - 1, and the
\* payload alive.
C5_ResetLeavesOthers ==
    [][\A h \in H :
        ( /\ op'.name = "Reset" /\ ResetStep(h) /\ Owning(Cur, h)
          /\ Cardinality(Group(Cur, hs[h].cb)) >= 2
          /\ Destroyed(Cur, hs[h].cb) = 0 )
        => /\ IsEmpty(Cur', h)
           /\ \A g \in Group(Cur, hs[h].cb) \ {h} :
                 /\ hs'[g].cb = hs[h].cb
                 /\ cbs'[hs[h].cb].st = "live"
                 /\ UseCount(Cur', g) = Cardinality(Group(Cur, hs[h].cb)) - 1
           /\ Destroyed(Cur', hs[h].cb) = 0]_vars

\* C6: move-assigning H (group G2) into a handle of another group G1 takes one
\* off G1's strong count (destroying G1's payload at zero), leaves G2's strong
\* count unchanged, gives the target H's control block and address, and leaves
\* H Empty.
C6_MoveAssignTransfers ==
    [][\A d \in H, o \in H :
        ( /\ op'.name = "MoveAssign" /\ MoveAssignStep(d, o) /\ Owning(Cur, d) /\ Owning(Cur, o)
          /\ hs[d].cb # hs[o].cb )
        => /\ cbs'[hs[d].cb].strong = cbs[hs[d].cb].strong - 1
           /\ cbs[hs[d].cb].strong = 1 => cbs'[hs[d].cb].zs = 1
           /\ cbs'[hs[o].cb].strong = cbs[hs[o].cb].strong
           /\ hs'[d].cb = hs[o].cb /\ hs'[d].ptr = hs[o].ptr
           /\ IsEmpty(Cur', o)]_vars

\* C7: copy-assigning H into a handle of another group (equal payload
\* addresses included) takes one off the old group's strong count (destroying
\* at zero), adds one to H's group's strong count, leaves the target with H's
\* control block and address, and leaves H unchanged.
C7_CopyAssignRejoins ==
    [][\A d \in H, o \in H :
        ( /\ op'.name = "CopyAssign" /\ CopyAssignStep(d, o) /\ Owning(Cur, d) /\ Owning(Cur, o)
          /\ hs[d].cb # hs[o].cb )
        => /\ cbs'[hs[d].cb].strong = cbs[hs[d].cb].strong - 1
           /\ cbs[hs[d].cb].strong = 1 => cbs'[hs[d].cb].zs = 1
           /\ cbs'[hs[o].cb].strong = cbs[hs[o].cb].strong + 1
           /\ hs'[d].cb = hs[o].cb /\ hs'[d].ptr = hs[o].ptr
           /\ hs'[o] = hs[o]]_vars

\* C8: copy-assigning an Owning handle to itself changes neither the handle
\* (UseCount(), Get()) nor any control block's counters, fires no callback
\* and destroys nothing.
C8_SelfAssignNoOp ==
    [][\A h \in H :
        (op'.name = "CopyAssign" /\ op'.self /\ CopyAssignStep(h, h) /\ Owning(Cur, h))
        => /\ hs' = hs
           /\ UseCount(Cur', h) = UseCount(Cur, h)
           /\ \A c \in CB : Block(Cur', c) = Block(Cur, c)
           /\ mem' = mem
           /\ Defined']_vars

\* a handle that owns alone has just been copy-assigned to itself
C8_Witness ==
    /\ op.name = "CopyAssign" /\ op.self /\ Defined
    /\ \E h \in H : hs[h].live
    /\ \A h \in H : hs[h].live => (Owning(Cur, h) /\ UseCount(Cur, h) = 1 /\ hs[h].ptr # NULL)

\* C9: in a group that has only been constructed (raw pointer, MakeShared)
\* and copy-constructed from K times (moves and swaps of its handles aside),
\* UseCount() of every handle is 1 + K, the number of handles of the group.
C9_UseCountAfterCopies ==
    \A c \in CB :
        (cbs[c].st = "live" /\ cbs[c].pure) =>
            \A h \in Group(Cur, c) : UseCount(Cur, h) = Cardinality(Group(Cur, c))

\* C10: move construction from H leaves H Empty, gives the new handle H's
\* former address and control block, and changes no counter (an Empty H gives
\* an Empty new handle).
C10_MoveCtorTransfers ==
    [][\A d \in H, o \in H :
        (op'.name = "MoveCtor" /\ MoveCtorStep(d, o))
        => /\ IsEmpty(Cur', o)
           /\ hs'[d].live /\ hs'[d].ptr = hs[o].ptr /\ hs'[d].cb = hs[o].cb
           /\ IsEmpty(Cur, o) => IsEmpty(Cur', d)
           /\ cbs' = cbs /\ mem' = mem /\ Defined']_vars

\* a handle owning a payload has just been move-constructed from another
\* handle, which is left Empty
C10_Witness ==
    /\ op.name = "MoveCtor" /\ Defined
    /\ \E d \in H, o \in H :
          /\ d # o /\ Owning(Cur, d) /\ hs[d].ptr # NULL /\ IsEmpty(Cur, o)
          /\ \A g \in H \ {d, o} : ~hs[g].live

\* C11: MakeShared leaves a handle on a new ControlBlockMakeShared with
\* strong = weak = 1, Get() the address of the embedded storage and
\* UseCount() 1; the embedded payload is never passed to delete and its
\* destructor runs only in OnZeroStrong.
C11_MakeSharedInPlace ==
    /\ op.name = "MakeShared" =>
          \E h \in H : /\ Owning(Cur, h) /\ cbs[hs[h].cb].kind = "make"
                        /\ Get(Cur, h) = Holder(hs[h].cb)
                        /\ UseCount(Cur, h) = 1 /\ cbs[hs[h].cb].weak = 1
    /\ \A c \in CB :
          (cbs[c].st # "none" /\ cbs[c].kind = "make") =>
              (mem[Holder(c)].del = 0 /\ mem[Holder(c)].dtor = cbs[c].zs)

\* C12: destroying a handle in the Empty state dereferences no control
\* block, changes no counter and destroys no payload.
C12_EmptyTeardownNoOp ==
    [][\A h \in H :
        (op'.name = "Destroy" /\ DestroyStep(h) /\ IsEmpty(Cur, h))
        => /\ Defined'
           /\ \A c \in CB : Block(Cur', c) = Block(Cur, c)
           /\ mem' = mem]_vars

\* C13: a default-constructed handle and a handle constructed from nullptr
\* are Empty (cb_ and ptr_ null) and no control block is allocated.
C13_DefaultIsEmpty ==
    [][\A h \in H :
        ( \/ (op'.name = "DefaultCtor" /\ DefaultCtorStep(h))
          \/ (op'.name = "NullCtor" /\ NullCtorStep(h)) )
        => /\ IsEmpty(Cur', h)
           /\ \A c \in CB : cbs'[c].st = cbs[c].st]_vars

\* C14: Reset(p) on an Owning handle takes one off the old group's strong
\* count, destroys the old payload exactly once if the handle was the last
\* owner and leaves it untouched otherwise, and leaves the handle as the sole
\* owner (UseCount() 1, Get() = p) of a control block that did not exist.
C14_ResetPtrNewGroup ==
    [][\A h \in H, fresh \in BOOLEAN :
        (op'.name = "ResetPtr" /\ ResetPtrStep(h, fresh) /\ Owning(Cur, h))
        => /\ cbs'[hs[h].cb].strong = cbs[hs[h].cb].strong - 1
           /\ Destroyed(Cur', hs[h].cb) =
                 IF cbs[hs[h].cb].strong = 1 /\ Payload(Cur, hs[h].cb) # NULL
                 THEN 1 ELSE Destroyed(Cur, hs[h].cb)
           /\ hs'[h].cb # NULL /\ cbs[hs'[h].cb].st = "none"
           /\ Owning(Cur', h) /\ UseCount(Cur', h) = 1
           /\ Get(Cur', h) = (IF fresh THEN FreshObj(Cur) ELSE NULL)
           /\ cbs'[hs'[h].cb].ptr = Get(Cur', h)]_vars

\* C15: operator== on two handles is true exactly when their payload
\* addresses are the same, whatever their control blocks: handles of
\* different groups with one address are equal, and so are any two handles
\* with a null payload.
C15_EqualityByAddress ==
    \A l \in H, r \in H :
        (hs[l].live /\ hs[r].live) =>
            /\ Equal(Cur, l, r) <=> (hs[l].ptr = hs[r].ptr)
            /\ (hs[l].cb # hs[r].cb /\ hs[l].ptr = hs[r].ptr) => Equal(Cur, l, r)
            /\ (hs[l].ptr = NULL /\ hs[r].ptr = NULL) => Equal(Cur, l, r)

\* an aliasing construction has given two handles of different groups the
\* same non-null address
C15_Witness ==
    /\ op.name = "AliasCtor" /\ Defined
    /\ \E l \in H, r \in H :
          /\ Owning(Cur, l) /\ Owning(Cur, r) /\ hs[l].cb # hs[r].cb
          /\ hs[l].ptr = hs[r].ptr /\ hs[l].ptr # NULL

\* C17: DecreaseStrong() on a live control block takes exactly one off
\* strong; when the result is zero OnZeroStrong() runs and then, whatever
\* weak is, OnZeroWeak(), which frees the block in the same step; otherwise
\* no callback fires and nothing else changes.
C17_DecreaseStrongProtocol ==
    \A c \in CB :
        (Defined /\ cbs[c].st = "live") =>
            \A s2 \in DecreaseStrong(Cur, c) :
                /\ s2.cbs[c].strong = cbs[c].strong - 1
                /\ s2.cbs[c].weak = cbs[c].weak
                /\ IF cbs[c].strong = 1
                   THEN /\ s2.cbs[c].zs = cbs[c].zs + 1
                        /\ s2.crashed => (s2.cbs[c].zw = cbs[c].zw /\ s2.cbs[c].st = "live")
                        /\ ~s2.crashed => (s2.cbs[c].zw = cbs[c].zw + 1 /\ s2.cbs[c].st = "freed")
                   ELSE s2 = [Cur EXCEPT !.cbs[c].strong = @ - 1]

\* a destruction or Reset() has just taken a group from strong 1 to zero while
\* another group with strong above 1 is live
C17_Witness ==
    /\ op.name \in {"Destroy", "Reset"} /\ Defined
    /\ \E c \in CB : cbs[c].st = "freed" /\ cbs[c].strong = 0 /\ cbs[c].zs = 1 /\ cbs[c].zw = 1
    /\ \E c \in CB : cbs[c].st = "live" /\ cbs[c].strong > 1

\* C18: copy or aliasing construction from a handle with a null control
\* block, and copy or move assignment into a handle with a null control
\* block, dereference no null control block and leave the target with the
\* source's control block.
C18_NullControlTolerated ==
    [][\A d \in H, o \in H :
        ( \/ /\ op'.name = "CopyCtor" /\ CopyCtorStep(d, o) /\ hs[o].cb = NULL
          \/ /\ op'.name = "AliasCtor" /\ hs[o].cb = NULL
             /\ \E p \in {NULL} \cup Addr : AliasCtorStep(d, o, p)
          \/ /\ op'.name = "CopyAssign" /\ CopyAssignStep(d, o) /\ hs[d].cb = NULL
          \/ /\ op'.name = "MoveAssign" /\ MoveAssignStep(d, o) /\ hs[d].cb = NULL /\ d # o )
        => /\ Defined'
           /\ hs'[d].live /\ hs'[d].cb = hs[o].cb]_vars

\* C19: Swap exchanges the control-block pointers and the payload addresses
\* of the two handles and changes nothing else (no counter, no callback, no
\* payload); a second Swap restores both handles.
C19_SwapExchanges ==
    [][\A a \in H, b \in H :
        (op'.name = "Swap" /\ SwapStep(a, b))
        => /\ hs'[a].cb = hs[b].cb /\ hs'[a].ptr = hs[b].ptr
           /\ hs'[b].cb = hs[a].cb /\ hs'[b].ptr = hs[a].ptr
           /\ \A g \in H \ {a, b} : hs'[g] = hs[g]
           /\ cbs' = cbs /\ mem' = mem /\ Defined'
           /\ \A s2 \in SwapOp(Cur', a, b) : s2.hs = hs]_vars

\* two handles of different groups with different addresses have just been
\* swapped
C19_Witness ==
    /\ op.name = "Swap" /\ ~op.self /\ Defined
    /\ \E a \in H, b \in H :
          /\ a # b /\ HType(a) = HType(b) /\ Owning(Cur, a) /\ Owning(Cur, b)
          /\ hs[a].cb # hs[b].cb /\ hs[a].ptr # hs[b].ptr
          /\ \A g \in H \ {a, b} : ~hs[g].live

\* the live UniquePtr variables whose ptr_ is a
Holders(s, a) == {u \in U : s.up[u].live /\ s.up[u].ptr = a}

\* C16: Release() returns the pointer the UniquePtr held, leaves Get() null
\* and invokes no deleter; no later operation invokes the deleter on a pointer
\* that Release() returned.
C16_ReleaseRelinquishes ==
    [][/\ \A u \in U :
            (uop'.name = "Release" /\ UReleaseStep(u))
            => /\ uop'.ret = UniquePtrGet(UCur, u)
               /\ UniquePtrGet(UCur', u) = NULL /\ up'[u].live
               /\ \A a \in UObj : uobj'[a].del = uobj[a].del
               /\ uub' = "none"
       /\ \A a \in UObj :
            uobj[a].st = "released"
            => (uobj'[a].st = "released" /\ uobj'[a].del = 0 /\ Holders(UCur', a) = {})]_vars

\* a UniquePtr released an object, was given another object and has been
\* destroyed, which deleted that other object
C16_Witness ==
    /\ uop.name = "Dtor" /\ UDefined
    /\ \E a \in UObj, b \in UObj :
          /\ uobj[a].st = "released" /\ uobj[a].from # NULL /\ ~up[uobj[a].from].live
          /\ uobj[b].st = "owned" /\ uobj[b].del = 1 /\ a < b

\* C20: every non-null pointer a UniquePtr has owned and that was not released
\* is passed to the deleter exactly once (never twice, and once it has no
\* holder it has been deleted), at most one live UniquePtr holds it, and a move
\* (construction or assignment) between two UniquePtr leaves the source's
\* Get() null and the destination's Get() the source's former pointer.
C20_ExclusiveOwnership ==
    [][/\ \A d \in U, o \in U :
            ( /\ d # o
              /\ \/ (uop'.name = "MoveCtor" /\ UMoveCtorStep(d, o))
                 \/ (uop'.name = "MoveAssign" /\ UMoveAssignStep(d, o)) )
            => /\ UniquePtrGet(UCur', o) = NULL
               /\ UniquePtrGet(UCur', d) = UniquePtrGet(UCur, o)
       /\ \A a \in UObj :
            uobj'[a].st = "owned"
            => /\ Cardinality(Holders(UCur', a)) <= 1
               /\ uobj'[a].del = (IF Holders(UCur', a) = {} THEN 1 ELSE 0)]_vars

====
